---- MODULE Spec2Model ----
(***************************************************************************)
(* build.py of libcrtc: the provisioning / build / packaging script.       *)
(*                                                                         *)
(* One invocation of the script is a run of the program counter pc from    *)
(* "release_name" to "done" or "failed".  The workspace on disk (3dparty/, *)
(* out/, dist/) outlives an invocation and is what the next one starts     *)
(* from.  External commands are opaque: each call draws its exit status.   *)
(***************************************************************************)
EXTENDS Integers, Sequences, FiniteSets, TLC

VARIABLES
  \* ---- the workspace on disk (persists across invocations) ----
  third_party_dir,   \* 3dparty/ exists
  depot_tools_dir,   \* 3dparty/depot_tools exists
  webrtc_dir,        \* 3dparty/webrtc exists
  webrtc_src_dir,    \* 3dparty/webrtc/src exists
  webrtc_sync,       \* 3dparty/.webrtc_sync exists (the sync marker)
  webrtc_crtc_dir,   \* 3dparty/webrtc/src/crtc exists (link to root_dir)
  build_gn,          \* 3dparty/webrtc/src/BUILD.gn: "absent" | "file" | "link"
  libcrtc_branch,    \* local git branch libcrtc exists in src
  out_dir,           \* build products under out/: set of <<os, cpu, name>>
  dist_dir,          \* dist/: the directories that exist, and the files of each
  overlay_runs,      \* history: how many invocations changed the overlay in src/
  \* ---- one invocation of the script ----
  pc,                \* position in the script
  failed_at,         \* position at which an exception ended the invocation
  sys_platform,      \* sys.platform
  machine,           \* platform.machine()
  environ,           \* os.environ entries the script has read so far
  target_platform, fetch_cmd, gclient_cmd, gn_cmd,
  target_os, target_cpu, release_name, pkg_name, gn_flags,
  cwd,               \* current working directory
  calls,             \* external commands issued so far, with exit status
  start,             \* the workspace as this invocation found it
  \* ---- a second process running the script on the same workspace ----
  peer               \* the invocation that is not taking steps at the moment

wsvars  == <<third_party_dir, depot_tools_dir, webrtc_dir, webrtc_src_dir,
             webrtc_sync, webrtc_crtc_dir, build_gn, libcrtc_branch,
             out_dir, dist_dir, overlay_runs>>
runvars == <<pc, failed_at, sys_platform, machine, environ, target_platform,
             fetch_cmd, gclient_cmd, gn_cmd, target_os, target_cpu,
             release_name, pkg_name, gn_flags, cwd, calls, start>>
vars    == <<wsvars, runvars, peer>>

(***************************************************************************)
(* Values                                                                  *)
(***************************************************************************)
None   == "<None>"      \* os.environ.get() of a variable that is not set
Unread == "<unread>"    \* a variable the script has not looked at yet

\* Hosts the script is started on: (sys.platform, platform.machine()).
Hosts == { <<"linux2", "x86_64">>, <<"win32", "x86_64">>,
           <<"darwin", "x86_64">>, <<"cygwin", "x86_64">> }
\* Values of the environment variables in the pipeline specification.
EnvTargetOS  == {None, "linux"}
EnvTargetCPU == {None, "x64"}
EnvToggle    == {None, "true"}
\* Output of `git describe --abbrev=0 --tags`, as whitespace-separated pieces.
DescribeOutputs == { <<"v2.1.0", "\n">> }
Whitespace == {" ", "\n", "\t"}
\* Tails a sys.platform string can carry after its family name.
PlatformTails == {"", "2", "12"}
\* Wider inputs for the platform specification (lines 21-52, 116-132 only).
AllPlatforms    == {"linux", "linux2", "win32", "darwin", "cygwin", "freebsd12"}
AllMachines     == {"x86_64", "i386", "AMD64", "arm64"}
AllEnvTargetOS  == {None, "", "linux", "win", "mac"}
AllEnvTargetCPU == {None, "", "x64", "x86_64", "i386", "arm"}
AllEnvToggle    == {None, "", "true", "false"}
\* Executables that depot_tools puts on the PATH.
DepotToolsExecutables == {"fetch", "fetch.bat", "gclient", "gclient.bat",
                          "gn", "gn.bat", "ninja"}

(***************************************************************************)
(* Pure functions of the script                                            *)
(***************************************************************************)
\* str.startswith
StartsWith(s, prefix) == \E t \in PlatformTails : s = prefix \o t

\* Truth value of a string returned by os.environ.get
Truthy(v) == v # None /\ v # ""

\* lines 21-29
TargetPlatform(p) ==
  IF StartsWith(p, "linux") THEN "linux"
  ELSE IF StartsWith(p, "win32") THEN "win32"
  ELSE p

FetchCmd(p)   == IF ~StartsWith(p, "linux") /\ StartsWith(p, "win32") THEN "fetch.bat" ELSE "fetch"
GclientCmd(p) == IF ~StartsWith(p, "linux") /\ StartsWith(p, "win32") THEN "glient.bat" ELSE "gclient"
GnCmd(p)      == IF ~StartsWith(p, "linux") /\ StartsWith(p, "win32") THEN "gn.bat" ELSE "gn"

\* a variant without the alias table
NormalizeCpu_raw(m) == m

\* lines 32-37
NormalizeCpu(m) ==
  IF m = "x86_64" THEN "x64"
  ELSE IF m = "i386" THEN "x86"
  ELSE m

\* a variant that passes the override through the alias table
Override_normalized(env, detected) == IF Truthy(env) THEN NormalizeCpu(env) ELSE detected

\* lines 46-50
Override(env, detected) == IF Truthy(env) THEN env ELSE detected

\* ''.join(output.split()), line 42
RECURSIVE JoinSplit(_)
JoinSplit(pieces) ==
  IF pieces = << >> THEN ""
  ELSE IF Head(pieces) \in Whitespace THEN JoinSplit(Tail(pieces))
  ELSE Head(pieces) \o JoinSplit(Tail(pieces))

\* the except clause of lines 41-44
Caught(exception) == exception = "ValueError"

\* a variant with the platform fields in the other order
PkgName_swapped(release, os, cpu) ==
  "libcrtc-" \o release \o "-" \o cpu \o "-" \o os \o ".tar.gz"

\* line 52
PkgName(release, os, cpu) ==
  "libcrtc-" \o release \o "-" \o os \o "-" \o cpu \o ".tar.gz"

\* os.path.join(out_dir, target_os, target_cpu)
OutPath(os, cpu) == <<os, cpu>>

(***************************************************************************)
(* Bookkeeping shared by the actions                                       *)
(***************************************************************************)
Call(cmd, argv, ok) == [cmd |-> cmd, argv |-> argv, ok |-> ok]

\* subprocess.check_call / check_output: a non-zero exit raises
CheckedNext(ok, label) == IF ok THEN label ELSE "failed"

\* subprocess.call: the exit status is returned and dropped
UncheckedNext(ok, label) == label

\* move to label; "failed" is an uncaught exception, raised at pc
Goto(label) ==
  /\ pc' = label
  /\ failed_at' = IF label = "failed" THEN pc ELSE failed_at

\* an executable that is not on the PATH cannot exit zero
ExitStatuses(exe) == IF exe \in DepotToolsExecutables \cup {"git"} THEN BOOLEAN ELSE {FALSE}

Running == pc \notin {"idle", "done", "failed"}

hostvars == <<sys_platform, machine, target_platform, fetch_cmd, gclient_cmd, gn_cmd>>
gitvars  == <<webrtc_src_dir, webrtc_crtc_dir, build_gn, libcrtc_branch>>
dirvars  == <<third_party_dir, depot_tools_dir, webrtc_dir, webrtc_sync>>
resolved == <<target_os, target_cpu, release_name, pkg_name, gn_flags, environ>>

File(name) == [name |-> name, gen |-> "new"]
\* writing a file replaces a file of the same name
Put(files, name) == { f \in files : f.name # name } \cup { File(name) }
Age(files) == { [f EXCEPT !.gen = "old"] : f \in files }
\* dist/ before the script ever ran: nothing exists
NoDist == [dirs |-> {}, include |-> {}, lib |-> {}, root |-> {}]

(***************************************************************************)
(* Initial state: a fresh checkout of the project                          *)
(***************************************************************************)
\* a process that has not started the script
NotStarted ==
  [pc |-> "idle", failed_at |-> "none", sys_platform |-> "", machine |-> "",
   environ |-> [WEBRTC_TARGET_OS |-> Unread, WEBRTC_TARGET_CPU |-> Unread,
                WEBRTC_DEBUG |-> Unread, WEBRTC_EXAMPLES |-> Unread],
   target_platform |-> "", fetch_cmd |-> "", gclient_cmd |-> "", gn_cmd |-> "",
   target_os |-> "", target_cpu |-> "", release_name |-> "", pkg_name |-> "",
   gn_flags |-> "", cwd |-> "root_dir", calls |-> << >>,
   start |-> [webrtc_sync |-> FALSE, depot_tools_dir |-> FALSE,
              dist_dir |-> NoDist, overlay_runs |-> 0]]

Init ==
  /\ third_party_dir = FALSE
  /\ depot_tools_dir = FALSE
  /\ webrtc_dir = FALSE
  /\ webrtc_src_dir = FALSE
  /\ webrtc_sync = FALSE
  /\ webrtc_crtc_dir = FALSE
  /\ build_gn = "absent"
  /\ libcrtc_branch = FALSE
  /\ out_dir = {}
  /\ dist_dir = NoDist
  /\ overlay_runs = 0
  /\ pc = "idle"
  /\ failed_at = "none"
  /\ sys_platform = "" /\ machine = ""
  /\ environ = [WEBRTC_TARGET_OS |-> Unread, WEBRTC_TARGET_CPU |-> Unread,
                WEBRTC_DEBUG |-> Unread, WEBRTC_EXAMPLES |-> Unread]
  /\ target_platform = "" /\ fetch_cmd = "" /\ gclient_cmd = "" /\ gn_cmd = ""
  /\ target_os = "" /\ target_cpu = ""
  /\ release_name = "" /\ pkg_name = "" /\ gn_flags = ""
  /\ cwd = "root_dir"
  /\ calls = << >>
  /\ start = [webrtc_sync |-> FALSE, depot_tools_dir |-> FALSE,
              dist_dir |-> NoDist, overlay_runs |-> 0]
  /\ peer = NotStarted

(***************************************************************************)
(* Lines 10-66: start of an invocation, platform detection, release name   *)
(***************************************************************************)
\* The script is started on some host.  Everything already in dist/ is from
\* an earlier invocation.  Lines 17-37 detect the platform.
StartOn(hosts) ==
  /\ ~Running
  /\ \E h \in hosts :
       /\ sys_platform' = h[1]
       /\ machine' = h[2]
       /\ target_platform' = TargetPlatform(h[1])
       /\ fetch_cmd' = FetchCmd(h[1])
       /\ gclient_cmd' = GclientCmd(h[1])
       /\ gn_cmd' = GnCmd(h[1])
       /\ target_os' = TargetPlatform(h[1])
       /\ target_cpu' = NormalizeCpu(h[2])
  /\ release_name' = "master"
  /\ pkg_name' = ""
  /\ gn_flags' = ""
  /\ environ' = [WEBRTC_TARGET_OS |-> Unread, WEBRTC_TARGET_CPU |-> Unread,
                 WEBRTC_DEBUG |-> Unread, WEBRTC_EXAMPLES |-> Unread]
  /\ cwd' = "root_dir"
  /\ calls' = << >>
  /\ dist_dir' = [dist_dir EXCEPT !.include = Age(@), !.lib = Age(@), !.root = Age(@)]
  /\ start' = [webrtc_sync |-> webrtc_sync, depot_tools_dir |-> depot_tools_dir,
               dist_dir |-> dist_dir', overlay_runs |-> overlay_runs]
  /\ pc' = "release_name"
  /\ failed_at' = "none"
  /\ UNCHANGED <<dirvars, gitvars, out_dir, overlay_runs, peer>>

Start == StartOn(Hosts)

\* Lines 39-44: git describe.  A non-zero exit raises CalledProcessError,
\* which reaches the except clause of line 43.
ReleaseName ==
  /\ pc = "release_name"
  /\ \/ \E out \in DescribeOutputs :
          /\ calls' = Append(calls, Call("git describe", <<"git", "describe", "--abbrev=0", "--tags">>, TRUE))
          /\ release_name' = JoinSplit(out)
          /\ Goto("overrides")
     \/ /\ calls' = Append(calls, Call("git describe", <<"git", "describe", "--abbrev=0", "--tags">>, FALSE))
        /\ IF Caught("CalledProcessError")
             THEN release_name' = "master" /\ Goto("overrides")
             ELSE UNCHANGED release_name /\ Goto("failed")
  /\ UNCHANGED <<wsvars, hostvars, target_os, target_cpu, pkg_name, gn_flags, environ, cwd, start, peer>>

\* Lines 46-52: environment overrides, then the archive name.
OverridesFrom(oses, cpus) ==
  /\ pc = "overrides"
  /\ \E eos \in oses, ecpu \in cpus :
       /\ environ' = [environ EXCEPT !.WEBRTC_TARGET_OS = eos, !.WEBRTC_TARGET_CPU = ecpu]
       /\ target_os' = Override(eos, target_os)
       /\ target_cpu' = Override(ecpu, target_cpu)
       /\ pkg_name' = PkgName(release_name, target_os', target_cpu')
  /\ Goto("clone_depot_tools")
  /\ UNCHANGED <<wsvars, hostvars, release_name, gn_flags, cwd, calls, start, peer>>

Overrides == OverridesFrom(EnvTargetOS, EnvTargetCPU)

(***************************************************************************)
(* Lines 68-77: toolchain bootstrap                                        *)
(***************************************************************************)
\* Lines 68-72: mkdir 3dparty, clone depot_tools when it is absent.
CloneDepotTools ==
  /\ pc = "clone_depot_tools"
  /\ third_party_dir' = TRUE
  /\ IF ~depot_tools_dir
       THEN \E ok \in ExitStatuses("git") :
              /\ calls' = Append(calls, Call("git clone", <<"git", "clone", "depot_tools.git", "depot_tools_dir">>, ok))
              /\ depot_tools_dir' = ok
              /\ Goto(CheckedNext(ok, "check_sync"))
       ELSE /\ UNCHANGED <<calls, depot_tools_dir>>
            /\ Goto("check_sync")
  /\ UNCHANGED <<webrtc_dir, webrtc_sync, gitvars, out_dir, overlay_runs, dist_dir, hostvars, resolved, cwd, start, peer>>

\* a variant that ignores the marker
NeedSync_always(marker) == TRUE

\* the test of line 79
NeedSync(marker) == ~marker

\* a variant that always fetches
SyncEntry_fetch(src) == "fetch"

\* the test of line 82: fetch a new tree, or update the tree that is there
SyncEntry(src) == IF ~src THEN "fetch" ELSE "git_fetch"

\* Lines 74-85: PATH, mkdir 3dparty/webrtc, the marker test, the src test.
CheckSync ==
  /\ pc = "check_sync"
  /\ webrtc_dir' = TRUE
  /\ IF NeedSync(webrtc_sync)
       THEN /\ cwd' = IF ~webrtc_src_dir THEN "webrtc_dir" ELSE "webrtc_src_dir"
            /\ Goto(SyncEntry(webrtc_src_dir))
       ELSE UNCHANGED cwd /\ Goto("gn_flags")
  /\ UNCHANGED <<third_party_dir, depot_tools_dir, webrtc_sync, gitvars, out_dir, overlay_runs, dist_dir,
                 hostvars, resolved, calls, start, peer>>

(***************************************************************************)
(* Lines 79-113: the synchronization block                                 *)
(***************************************************************************)
\* Line 83: subprocess.call([fetch_cmd, '--nohooks', 'webrtc']).  A fetch
\* that fails may or may not have created src/ before it stopped.
Fetch ==
  /\ pc = "fetch"
  /\ \E ok \in ExitStatuses(fetch_cmd) :
       /\ calls' = Append(calls, Call("fetch", <<fetch_cmd, "--nohooks", "webrtc">>, ok))
       /\ \E created \in (IF ok THEN {TRUE} ELSE BOOLEAN) :
            /\ webrtc_src_dir' = created
            /\ build_gn' = IF created THEN "file" ELSE "absent"
       /\ Goto(UncheckedNext(ok, "gclient_sync"))
  /\ UNCHANGED <<dirvars, webrtc_crtc_dir, libcrtc_branch, out_dir, overlay_runs, dist_dir,
                 hostvars, resolved, cwd, start, peer>>

\* Line 87
GitFetch ==
  /\ pc = "git_fetch"
  /\ \E ok \in ExitStatuses("git") :
       /\ calls' = Append(calls, Call("git fetch", <<"git", "fetch", "origin">>, ok))
       /\ Goto(CheckedNext(ok, "git_reset"))
  /\ UNCHANGED <<wsvars, hostvars, resolved, cwd, start, peer>>

\* Line 88: a hard reset restores the tracked BUILD.gn
GitReset ==
  /\ pc = "git_reset"
  /\ \E ok \in ExitStatuses("git") :
       /\ calls' = Append(calls, Call("git reset", <<"git", "reset", "--hard", "origin/master">>, ok))
       /\ build_gn' = IF ok THEN "file" ELSE build_gn
       /\ Goto(CheckedNext(ok, "git_checkout"))
  /\ UNCHANGED <<dirvars, webrtc_src_dir, webrtc_crtc_dir, libcrtc_branch, out_dir, overlay_runs, dist_dir,
                 hostvars, resolved, cwd, start, peer>>

\* Line 89
GitCheckout ==
  /\ pc = "git_checkout"
  /\ \E ok \in ExitStatuses("git") :
       /\ calls' = Append(calls, Call("git checkout", <<"git", "checkout", "origin/master">>, ok))
       /\ Goto(CheckedNext(ok, "git_branch_list"))
  /\ UNCHANGED <<wsvars, hostvars, resolved, cwd, start, peer>>

\* Line 91: the output is non-empty exactly when the branch exists
GitBranchList ==
  /\ pc = "git_branch_list"
  /\ \E ok \in ExitStatuses("git") :
       /\ calls' = Append(calls, Call("git branch --list", <<"git", "branch", "--list", "libcrtc">>, ok))
       /\ Goto(CheckedNext(ok, IF libcrtc_branch THEN "git_branch_delete" ELSE "git_clean"))
  /\ UNCHANGED <<wsvars, hostvars, resolved, cwd, start, peer>>

\* Line 92
GitBranchDelete ==
  /\ pc = "git_branch_delete"
  /\ \E ok \in ExitStatuses("git") :
       /\ calls' = Append(calls, Call("git branch -D", <<"git", "branch", "-D", "libcrtc">>, ok))
       /\ libcrtc_branch' = IF ok THEN FALSE ELSE libcrtc_branch
       /\ Goto(CheckedNext(ok, "git_clean"))
  /\ UNCHANGED <<dirvars, webrtc_src_dir, webrtc_crtc_dir, build_gn, out_dir, overlay_runs, dist_dir,
                 hostvars, resolved, cwd, start, peer>>

\* Lines 94-96: git clean -f may take the untracked crtc link with it
GitClean ==
  /\ pc = "git_clean"
  /\ \E ok \in ExitStatuses("git") :
       /\ calls' = Append(calls, Call("git clean", <<"git", "clean", "-f">>, ok))
       /\ \E kept \in (IF ok THEN {FALSE, webrtc_crtc_dir} ELSE {webrtc_crtc_dir}) :
            webrtc_crtc_dir' = kept
       /\ cwd' = IF ok THEN "webrtc_dir" ELSE cwd
       /\ Goto(CheckedNext(ok, "gclient_sync"))
  /\ UNCHANGED <<dirvars, webrtc_src_dir, build_gn, libcrtc_branch, out_dir, overlay_runs, dist_dir,
                 hostvars, resolved, start, peer>>

\* Line 98: a successful gclient sync leaves src/ checked out
GclientSync ==
  /\ pc = "gclient_sync"
  /\ \E ok \in ExitStatuses(gclient_cmd) :
       /\ calls' = Append(calls, Call("gclient sync", <<gclient_cmd, "sync", "--with_branch_heads", "--force">>, ok))
       /\ webrtc_src_dir' = IF ok THEN TRUE ELSE webrtc_src_dir
       /\ build_gn' = IF ok THEN "file" ELSE build_gn
       /\ Goto(CheckedNext(ok, "checkout_branch"))
  /\ UNCHANGED <<dirvars, webrtc_crtc_dir, libcrtc_branch, out_dir, overlay_runs, dist_dir,
                 hostvars, resolved, cwd, start, peer>>

\* Lines 100-102: chdir src, git checkout -b libcrtc; git refuses to create
\* a branch that exists
CheckoutBranch ==
  /\ pc = "checkout_branch"
  /\ IF ~webrtc_src_dir
       THEN /\ Goto("failed")
            /\ UNCHANGED <<calls, libcrtc_branch, build_gn, cwd>>
       ELSE /\ cwd' = "webrtc_src_dir"
            /\ \E ok \in (IF libcrtc_branch THEN {FALSE} ELSE ExitStatuses("git")) :
                 /\ calls' = Append(calls, Call("git checkout -b",
                                 <<"git", "checkout", "-b", "libcrtc", "refs/remotes/branch-heads/59">>, ok))
                 /\ libcrtc_branch' = IF ok THEN TRUE ELSE libcrtc_branch
                 /\ build_gn' = IF ok THEN "file" ELSE build_gn
                 /\ Goto(CheckedNext(ok, "remove_build_gn"))
  /\ UNCHANGED <<dirvars, webrtc_src_dir, webrtc_crtc_dir, out_dir, overlay_runs, dist_dir,
                 hostvars, resolved, start, peer>>

\* the overlay history counts at most this many invocations
MaxOverlayRuns == 2

\* an overlay step of lines 104-110 took effect: the invocation is counted
\* once, the first time it changes the overlay
Overlaid(n, changed) ==
  IF changed /\ n = start.overlay_runs /\ n < MaxOverlayRuns THEN n + 1 ELSE n

\* Lines 104-105
RemoveBuildGn ==
  /\ pc = "remove_build_gn"
  /\ build_gn' = "absent"
  /\ overlay_runs' = Overlaid(overlay_runs, build_gn # "absent")
  /\ Goto("link_crtc")
  /\ UNCHANGED <<dirvars, webrtc_src_dir, webrtc_crtc_dir, libcrtc_branch, out_dir, dist_dir,
                 hostvars, resolved, cwd, calls, start, peer>>

\* Lines 107-108: os.symlink raises OSError when the link cannot be made
LinkCrtc ==
  /\ pc = "link_crtc"
  /\ IF ~webrtc_crtc_dir
       THEN \E ok \in BOOLEAN :
              /\ webrtc_crtc_dir' = ok
              /\ overlay_runs' = Overlaid(overlay_runs, ok)
              /\ Goto(IF ok THEN "link_build_gn" ELSE "failed")
       ELSE UNCHANGED <<webrtc_crtc_dir, overlay_runs>> /\ Goto("link_build_gn")
  /\ UNCHANGED <<dirvars, webrtc_src_dir, build_gn, libcrtc_branch, out_dir, dist_dir,
                 hostvars, resolved, cwd, calls, start, peer>>

\* Line 110: os.symlink raises OSError when BUILD.gn exists
LinkBuildGn ==
  /\ pc = "link_build_gn"
  /\ \E ok \in (IF build_gn = "absent" THEN BOOLEAN ELSE {FALSE}) :
       /\ build_gn' = IF ok THEN "link" ELSE build_gn
       /\ overlay_runs' = Overlaid(overlay_runs, ok)
       /\ Goto(IF ok THEN "write_marker" ELSE "failed")
  /\ UNCHANGED <<dirvars, webrtc_src_dir, webrtc_crtc_dir, libcrtc_branch, out_dir, dist_dir,
                 hostvars, resolved, cwd, calls, start, peer>>

\* Lines 111-113
WriteMarker ==
  /\ pc = "write_marker"
  /\ webrtc_sync' = TRUE
  /\ cwd' = "root_dir"
  /\ Goto("gn_flags")
  /\ UNCHANGED <<third_party_dir, depot_tools_dir, webrtc_dir, gitvars, out_dir, overlay_runs, dist_dir,
                 hostvars, resolved, calls, start, peer>>

(***************************************************************************)
(* Lines 115-140: build-graph generation and build                         *)
(***************************************************************************)
\* lines 116-132, with the two target flags appended in the other order
GnFlags_reordered(os, cpu, platform, mach, debug) ==
  "--args=rtc_include_tests=false is_component_build=false rtc_use_h264=true rtc_enable_protobuf=false treat_warnings_as_errors=false use_custom_libcxx=false"
  \o (IF debug = "true" THEN " is_debug=true" ELSE " is_debug=false")
  \o (IF os = "linux" THEN " use_ozone=true" \o " is_desktop_linux=false" \o " rtc_use_gtk=false" ELSE "")
  \o (IF cpu # mach THEN " target_cpu=\"" \o cpu \o "\"" ELSE "")
  \o (IF os # platform THEN " target_os=\"" \o os \o "\"" ELSE "")

\* lines 116-132
GnFlags(os, cpu, platform, mach, debug) ==
  "--args=rtc_include_tests=false is_component_build=false rtc_use_h264=true rtc_enable_protobuf=false treat_warnings_as_errors=false use_custom_libcxx=false"
  \o (IF debug = "true" THEN " is_debug=true" ELSE " is_debug=false")
  \o (IF os = "linux" THEN " use_ozone=true" \o " is_desktop_linux=false" \o " rtc_use_gtk=false" ELSE "")
  \o (IF os # platform THEN " target_os=\"" \o os \o "\"" ELSE "")
  \o (IF cpu # mach THEN " target_cpu=\"" \o cpu \o "\"" ELSE "")

\* The shared library the crtc target links for a target OS.
BuiltLibrary(os) ==
  IF os \in {"win32", "win"} THEN "libcrtc.dll"
  ELSE IF os \in {"darwin", "mac"} THEN "libcrtc.dylib"
  ELSE "libcrtc.so"

\* Lines 115-132: chdir src, derive the generator flags
DeriveGnFlags ==
  /\ pc = "gn_flags"
  /\ IF ~webrtc_src_dir
       THEN /\ Goto("failed")
            /\ UNCHANGED <<cwd, environ, gn_flags>>
       ELSE /\ cwd' = "webrtc_src_dir"
            /\ \E debug \in EnvToggle :
                 /\ environ' = [environ EXCEPT !.WEBRTC_DEBUG = debug]
                 /\ gn_flags' = GnFlags(target_os, target_cpu, target_platform, machine, debug)
            /\ Goto("gn_gen")
  /\ UNCHANGED <<wsvars, hostvars, target_os, target_cpu, release_name, pkg_name, calls, start, peer>>

\* a variant that drops the generator's exit status
GnNext_unchecked(ok) == UncheckedNext(ok, "ninja")

\* where the script goes after the generator returned (check_call, line 134)
GnNext(ok) == CheckedNext(ok, "ninja")

\* Lines 134-135: gn gen out/<os>/<cpu>
GnGen ==
  /\ pc = "gn_gen"
  /\ \E ok \in ExitStatuses(gn_cmd) :
       /\ calls' = Append(calls, Call("gn gen", <<gn_cmd, "gen", OutPath(target_os, target_cpu), gn_flags>>, ok))
       /\ cwd' = IF ok THEN "root_dir" ELSE cwd
       /\ Goto(GnNext(ok))
  /\ UNCHANGED <<wsvars, hostvars, resolved, start, peer>>

\* a variant that drops the build runner's exit status
NinjaNext_unchecked(ok) == UncheckedNext(ok, "dist_mkdir")

\* where the script goes after the build runner returned
NinjaNext(ok) == CheckedNext(ok, "dist_mkdir")

\* a variant that always builds the library target
NinjaTarget_always(examples) == "crtc"

\* the target of lines 137-140
NinjaTarget(examples) == IF examples = "true" THEN "crtc-examples" ELSE "crtc"

\* Lines 137-140: ninja -C out/<os>/<cpu> crtc | crtc-examples
Ninja ==
  /\ pc = "ninja"
  /\ \E examples \in EnvToggle, ok \in ExitStatuses("ninja") :
       /\ environ' = [environ EXCEPT !.WEBRTC_EXAMPLES = examples]
       /\ calls' = Append(calls, Call("ninja", <<"ninja", "-C", OutPath(target_os, target_cpu),
                                       NinjaTarget(examples)>>, ok))
       /\ out_dir' = IF ok THEN out_dir \cup { <<target_os, target_cpu, BuiltLibrary(target_os)>> } ELSE out_dir
       /\ Goto(NinjaNext(ok))
  /\ UNCHANGED <<dirvars, gitvars, dist_dir, overlay_runs, hostvars, target_os, target_cpu, release_name,
                 pkg_name, gn_flags, cwd, start, peer>>

(***************************************************************************)
(* Lines 142-169: packaging                                                *)
(***************************************************************************)
\* a variant that deletes dist/ and creates it again
MakeDist_recreate(d) == [dirs |-> {"dist"}, include |-> {}, lib |-> {}, root |-> {}]

\* lines 142-143: dist/ is created when it does not exist
MakeDist(d) == [d EXCEPT !.dirs = @ \cup {"dist"}]

\* a variant that keeps a directory that exists
Recreated_keep(files) == files

\* lines 145-148 and 150-153: rmtree when it exists, then mkdir
Recreated(files) == {}

\* lines 160-167: the library file name is chosen by the host platform
HostLibrary(p) ==
  IF StartsWith(p, "linux") THEN "libcrtc.so"
  ELSE IF StartsWith(p, "win32") THEN "libcrtc.dll"
  ELSE IF StartsWith(p, "darwin") THEN "libcrtc.dylib"
  ELSE None

pkgvars == <<dirvars, gitvars, out_dir, overlay_runs, hostvars, resolved, cwd, calls, start, peer>>

\* Lines 142-143
DistMkdir ==
  /\ pc = "dist_mkdir"
  /\ dist_dir' = MakeDist(dist_dir)
  /\ Goto("recreate_include")
  /\ UNCHANGED pkgvars

\* Lines 145-148
RecreateInclude ==
  /\ pc = "recreate_include"
  /\ dist_dir' = [dist_dir EXCEPT !.include = Recreated(@), !.dirs = @ \cup {"include"}]
  /\ Goto("recreate_lib")
  /\ UNCHANGED pkgvars

\* Lines 150-153
RecreateLib ==
  /\ pc = "recreate_lib"
  /\ dist_dir' = [dist_dir EXCEPT !.lib = Recreated(@), !.dirs = @ \cup {"lib"}]
  /\ Goto("copy_files")
  /\ UNCHANGED pkgvars

\* Lines 155-158: the header and the three license files
CopyFiles ==
  /\ pc = "copy_files"
  /\ dist_dir' = [dist_dir EXCEPT
       !.include = Put(@, "crtc.h"),
       !.root = Put(Put(Put(@, "LICENSE"), "WEBRTC_LICENSE"), "WEBRTC_LICENSE_THIRD_PARTY")]
  /\ Goto("copy_lib")
  /\ UNCHANGED pkgvars

\* a variant that moves the file
Copied_moved(out, src) == out \ {src}

\* lines 160-167: shutil.copy leaves its source where it is
Copied(out, src) == out

\* Lines 160-167: shutil.copy raises IOError when the source is missing
CopyLib ==
  /\ pc = "copy_lib"
  /\ LET lib == HostLibrary(sys_platform)
         src == <<target_os, target_cpu, lib>>
     IN  IF lib = None
           THEN UNCHANGED <<dist_dir, out_dir>> /\ Goto("build_archive")
           ELSE IF src \in out_dir
             THEN /\ dist_dir' = [dist_dir EXCEPT !.lib = Put(@, lib)]
                  /\ out_dir' = Copied(out_dir, src)
                  /\ Goto("build_archive")
             ELSE UNCHANGED <<dist_dir, out_dir>> /\ Goto("failed")
  /\ UNCHANGED <<dirvars, gitvars, overlay_runs, hostvars, resolved, cwd, calls, start, peer>>

\* Lines 54-60 and 169: the archive is written into dist/ under pkg_name
BuildArchive ==
  /\ pc = "build_archive"
  /\ dist_dir' = [dist_dir EXCEPT !.root = Put(@, pkg_name)]
  /\ Goto("done")
  /\ UNCHANGED pkgvars

(***************************************************************************)
(* The workspace belongs to the user: between invocations the toolchain    *)
(* checkout may be removed (lines 71-72 exist to clone it again).          *)
(***************************************************************************)
RemoveDepotTools ==
  /\ ~Running
  /\ depot_tools_dir
  /\ depot_tools_dir' = FALSE
  /\ UNCHANGED <<third_party_dir, webrtc_dir, webrtc_sync, gitvars, out_dir, overlay_runs, dist_dir, runvars, peer>>

Next ==
  \/ Start
  \/ ReleaseName
  \/ Overrides
  \/ CloneDepotTools
  \/ CheckSync
  \/ Fetch
  \/ GitFetch
  \/ GitReset
  \/ GitCheckout
  \/ GitBranchList
  \/ GitBranchDelete
  \/ GitClean
  \/ GclientSync
  \/ CheckoutBranch
  \/ RemoveBuildGn
  \/ LinkCrtc
  \/ LinkBuildGn
  \/ WriteMarker
  \/ DeriveGnFlags
  \/ GnGen
  \/ Ninja
  \/ DistMkdir
  \/ RecreateInclude
  \/ RecreateLib
  \/ CopyFiles
  \/ CopyLib
  \/ BuildArchive
  \/ RemoveDepotTools

Spec == Init /\ [][Next]_vars

(***************************************************************************)
(* The platform specification: lines 21-52 and 116-132 are pure functions  *)
(* of the host and the environment.  It applies them to wider inputs, up   *)
(* to the generator call that receives them (line 134), and leaves the     *)
(* workspace alone.                                                        *)
(***************************************************************************)
PlatformStart == StartOn(AllPlatforms \X AllMachines)

PlatformOverrides == OverridesFrom(AllEnvTargetOS, AllEnvTargetCPU)

\* lines 116-132 applied to the resolved target
PlatformFlags ==
  /\ pc = "clone_depot_tools"
  /\ \E debug \in AllEnvToggle :
       /\ environ' = [environ EXCEPT !.WEBRTC_DEBUG = debug]
       /\ gn_flags' = GnFlags(target_os, target_cpu, target_platform, machine, debug)
  /\ Goto("gn_gen")
  /\ UNCHANGED <<wsvars, hostvars, target_os, target_cpu, release_name, pkg_name, cwd, calls, start, peer>>

PlatformNext ==
  \/ PlatformStart
  \/ ReleaseName
  \/ PlatformOverrides
  \/ PlatformFlags
  \/ GnGen

SpecPlatform == Init /\ [][PlatformNext]_vars

(***************************************************************************)
(* Two processes run the script on one workspace.  Each has its own        *)
(* interpreter state; the operating system runs one of them at a time and  *)
(* may change over between any two statements.  The script takes no lock.  *)
(***************************************************************************)
\* the interpreter state of the process that is taking steps
Running_state ==
  [pc |-> pc, failed_at |-> failed_at, sys_platform |-> sys_platform, machine |-> machine,
   environ |-> environ, target_platform |-> target_platform, fetch_cmd |-> fetch_cmd,
   gclient_cmd |-> gclient_cmd, gn_cmd |-> gn_cmd, target_os |-> target_os,
   target_cpu |-> target_cpu, release_name |-> release_name, pkg_name |-> pkg_name,
   gn_flags |-> gn_flags, cwd |-> cwd, calls |-> calls, start |-> start]

\* the other process is scheduled
Switch ==
  /\ peer' = Running_state
  /\ pc' = peer.pc
  /\ failed_at' = peer.failed_at
  /\ sys_platform' = peer.sys_platform
  /\ machine' = peer.machine
  /\ environ' = peer.environ
  /\ target_platform' = peer.target_platform
  /\ fetch_cmd' = peer.fetch_cmd
  /\ gclient_cmd' = peer.gclient_cmd
  /\ gn_cmd' = peer.gn_cmd
  /\ target_os' = peer.target_os
  /\ target_cpu' = peer.target_cpu
  /\ release_name' = peer.release_name
  /\ pkg_name' = peer.pkg_name
  /\ gn_flags' = peer.gn_flags
  /\ cwd' = peer.cwd
  /\ calls' = peer.calls
  /\ start' = peer.start
  /\ UNCHANGED wsvars

RaceStart == StartOn({<<"linux2", "x86_64">>})

RaceOverrides == OverridesFrom({None}, {None})

RaceNext ==
  \/ RaceStart
  \/ ReleaseName
  \/ RaceOverrides
  \/ CloneDepotTools
  \/ CheckSync
  \/ Fetch
  \/ GitFetch
  \/ GitReset
  \/ GitCheckout
  \/ GitBranchList
  \/ GitBranchDelete
  \/ GitClean
  \/ GclientSync
  \/ CheckoutBranch
  \/ RemoveBuildGn
  \/ LinkCrtc
  \/ LinkBuildGn
  \/ WriteMarker
  \/ Switch

SpecRace == Init /\ [][RaceNext]_vars

(***************************************************************************)
(* Properties                                                              *)
(***************************************************************************)
\* the external commands of the synchronization sequence (lines 79-102)
SyncSteps == {"fetch", "git fetch", "git reset", "git checkout", "git branch --list",
              "git branch -D", "git clean", "gclient sync", "git checkout -b"}

Issued(cmds)     == \E i \in DOMAIN calls : calls[i].cmd \in cmds
FailedCall(cmds) == \E i \in DOMAIN calls : calls[i].cmd \in cmds /\ ~calls[i].ok

Names(files) == { f.name : f \in files }
Licenses == {"LICENSE", "WEBRTC_LICENSE", "WEBRTC_LICENSE_THIRD_PARTY"}

\* C1: the sync marker is never present after an invocation in which a step
\* of the synchronization sequence failed.
C1_MarkerOnlyAfterFullSync ==
  FailedCall(SyncSteps) => ~webrtc_sync

\* the positions of the synchronization block, lines 80-113
SyncBlock == {"fetch", "git_fetch", "git_reset", "git_checkout", "git_branch_list",
              "git_branch_delete", "git_clean", "gclient_sync", "checkout_branch",
              "remove_build_gn", "link_crtc", "link_build_gn", "write_marker"}

\* C2 as stated: with the marker present at start the invocation issues no
\* clone, fetch, reset, checkout, branch, clean or sub-dependency sync and
\* does not fail before the configure stage, whatever else the workspace holds.
C2_NoVcsWhenMarked ==
  start.webrtc_sync =>
    /\ ~Issued(SyncSteps \cup {"git clone"})
    /\ failed_at \notin SyncBlock \cup {"clone_depot_tools", "check_sync"}

\* C2 amended: with the marker present at start the synchronization block is
\* never entered and none of its commands is issued; the toolchain clone is
\* issued exactly when the toolchain directory is absent, and only a failure
\* of that clone keeps the stage from handing over to the configure stage.
C2_FastPath ==
  start.webrtc_sync =>
    /\ ~Issued(SyncSteps)
    /\ pc \notin SyncBlock
    /\ Issued({"git clone"}) => ~start.depot_tools_dir
    /\ (~start.depot_tools_dir /\ pc \notin {"release_name", "overrides", "clone_depot_tools"}
          /\ failed_at # "release_name") => Issued({"git clone"})
    /\ failed_at \in SyncBlock \cup {"clone_depot_tools", "check_sync"} =>
          (failed_at = "clone_depot_tools" /\ FailedCall({"git clone"}))

C2_Witness ==
  /\ start.webrtc_sync
  /\ ~start.depot_tools_dir
  /\ pc = "gn_flags"
  /\ Issued({"git clone"})

\* C3: a command that exits non-zero is the last command of its invocation,
\* and the invocation has failed.
C3_FailureAborts ==
  \A i \in DOMAIN calls : ~calls[i].ok => (i = Len(calls) /\ pc = "failed")

\* C4: when the build-graph generator or the build runner fails the
\* invocation has ended and dist/ is exactly what the invocation found.
C4_FailedBuildLeavesDist ==
  FailedCall({"gn gen", "ninja"}) =>
    /\ pc = "failed"
    /\ dist_dir = start.dist_dir

C4_Witness ==
  /\ FailedCall({"ninja"})
  /\ pc = "failed"
  /\ start.dist_dir.lib # {}
  /\ start.dist_dir.root # {}

\* C5: after packaging completes every file in dist/lib/ was copied there by
\* this invocation.
C5_NoStaleLib ==
  pc = "done" => \A f \in dist_dir.lib : f.gen = "new"

C5_Witness ==
  /\ pc = "done"
  /\ \E f \in start.dist_dir.lib : f.name \notin Names(dist_dir.lib)
  /\ dist_dir.lib # {}

\* C6 as stated: after packaging completes nothing in dist/ is from before
\* the invocation.
C6_DistRebuilt ==
  pc = "done" =>
    \A f \in dist_dir.root \cup dist_dir.include \cup dist_dir.lib : f.gen = "new"

\* C6 amended: dist/ is created when absent and never deleted.  After
\* packaging completes include/ and lib/ hold only files of this invocation,
\* the license files and the archive named pkg_name are of this invocation,
\* and every other entry of dist/ is exactly as the invocation found it.
C6_DistKept ==
  pc = "done" =>
    /\ \A f \in dist_dir.include \cup dist_dir.lib : f.gen = "new"
    /\ \A n \in Licenses \cup {pkg_name} : [name |-> n, gen |-> "new"] \in dist_dir.root
    /\ \A f \in dist_dir.root : f.gen = "new" => f.name \in Licenses \cup {pkg_name}
    /\ \A f \in start.dist_dir.root :
         f.name \notin Licenses \cup {pkg_name} => f \in dist_dir.root

C6_Witness ==
  /\ pc = "done"
  /\ \E f \in dist_dir.root : f.gen = "old" /\ f \in start.dist_dir.root

\* C7: when git describe fails the release name is 'master' and the
\* invocation goes on.
C7_TagFallback ==
  FailedCall({"git describe"}) =>
    /\ release_name = "master"
    /\ ~(pc = "failed" /\ failed_at = "release_name")

\* C8: the archive packaging writes into dist/ is named
\* libcrtc-<release>-<os>-<cpu>.tar.gz for the resolved os and cpu, the
\* values that key the build output directory.
C8_ArchiveName ==
  pc = "done" =>
    /\ [name |-> "libcrtc-" \o release_name \o "-" \o target_os \o "-" \o target_cpu \o ".tar.gz",
        gen |-> "new"] \in dist_dir.root
    /\ \A f \in dist_dir.root :
         (f.gen = "new" /\ f.name \notin Licenses) =>
            f.name = "libcrtc-" \o release_name \o "-" \o target_os \o "-" \o target_cpu \o ".tar.gz"
    /\ \A i \in DOMAIN calls :
         calls[i].cmd \in {"gn gen", "ninja"} => calls[i].argv[3] = <<target_os, target_cpu>>
    /\ target_os = IF environ.WEBRTC_TARGET_OS \in {None, ""}
                     THEN target_platform ELSE environ.WEBRTC_TARGET_OS

C8_Witness ==
  /\ pc = "done"
  /\ environ.WEBRTC_TARGET_OS = "linux"
  /\ target_platform # "linux"
  /\ [name |-> "libcrtc-v2.1.0-linux-x64.tar.gz", gen |-> "new"] \in dist_dir.root

\* C9: packaging completes only with the shared library of the target
\* platform in dist/lib/: .so for linux, .dll for windows, .dylib for darwin
\* (stated for invocations in which every external command succeeded).
C9_ArtifactPackaged ==
  (pc = "done" /\ target_os \in {"linux", "win32", "darwin"}
     /\ \A i \in DOMAIN calls : calls[i].ok) =>
    /\ target_os = "linux"  => Names(dist_dir.lib) = {"libcrtc.so"}
    /\ target_os = "win32"  => Names(dist_dir.lib) = {"libcrtc.dll"}
    /\ target_os = "darwin" => Names(dist_dir.lib) = {"libcrtc.dylib"}

\* C10 as stated: the resolved OS is the OS override whenever that variable
\* is set and the detected OS otherwise, likewise for the CPU, and an
\* override is used literally.
C10_OverrideWhenSet ==
  environ.WEBRTC_TARGET_OS # Unread =>
    /\ target_os = IF environ.WEBRTC_TARGET_OS # None
                     THEN environ.WEBRTC_TARGET_OS ELSE target_platform
    /\ target_cpu = IF environ.WEBRTC_TARGET_CPU # None
                      THEN environ.WEBRTC_TARGET_CPU ELSE NormalizeCpu(machine)

\* C10 amended: the resolved OS is the OS override whenever that variable is
\* set to a non-empty string and the detected OS otherwise (unset or empty),
\* likewise for the CPU, and an override is used literally.
C10_OverrideWhenNonEmpty ==
  environ.WEBRTC_TARGET_OS # Unread =>
    /\ target_os = IF environ.WEBRTC_TARGET_OS \notin {None, ""}
                     THEN environ.WEBRTC_TARGET_OS ELSE target_platform
    /\ target_cpu = IF environ.WEBRTC_TARGET_CPU \notin {None, ""}
                      THEN environ.WEBRTC_TARGET_CPU ELSE NormalizeCpu(machine)

C10_Witness ==
  /\ environ.WEBRTC_TARGET_CPU = "x86_64"
  /\ environ.WEBRTC_TARGET_OS = "win"
  /\ target_cpu = "x86_64"
  /\ target_os = "win"
  /\ machine = "arm64"
  /\ target_platform = "linux"

\* the generator calls of this invocation
GnCalls == { i \in DOMAIN calls : calls[i].cmd = "gn gen" }

\* C11: with no CPU override the resolved CPU is x64 for x86_64, x86 for
\* i386 and the host string otherwise, and that value is the one in the
\* archive name, in the output directory key and in the generator flags.
C11_CpuNormalized ==
  environ.WEBRTC_TARGET_CPU = None =>
    LET cpu == CASE machine = "x86_64" -> "x64"
                 [] machine = "i386"   -> "x86"
                 [] OTHER              -> machine
    IN /\ target_cpu = cpu
       /\ pkg_name = "libcrtc-" \o release_name \o "-" \o target_os \o "-" \o cpu \o ".tar.gz"
       /\ gn_flags # "" =>
            gn_flags = GnFlags(target_os, cpu, target_platform, machine, environ.WEBRTC_DEBUG)
       /\ \A i \in GnCalls : calls[i].argv[3] = <<target_os, cpu>> /\ calls[i].argv[4] = gn_flags

C11_Witness ==
  /\ environ.WEBRTC_TARGET_CPU = None
  /\ machine = "i386"
  /\ target_cpu = "x86"
  /\ pkg_name = "libcrtc-v2.1.0-linux-x86.tar.gz"
  /\ \E i \in GnCalls : calls[i].argv[3] = <<"linux", "x86">>

\* the flags every generator call carries, and the conditional ones
BaseFlags == "--args=rtc_include_tests=false is_component_build=false rtc_use_h264=true rtc_enable_protobuf=false treat_warnings_as_errors=false use_custom_libcxx=false"
DebugFlags == {" is_debug=true", " is_debug=false"}
LinuxFlags == " use_ozone=true is_desktop_linux=false rtc_use_gtk=false"
TargetOsFlag  == " target_os=\"" \o target_os \o "\""
TargetCpuFlag == " target_cpu=\"" \o target_cpu \o "\""

\* the host's own CPU, in the names the resolved CPU uses
HostCpu == CASE machine = "x86_64" -> "x64"
             [] machine = "i386"   -> "x86"
             [] OTHER              -> machine

\* C12: the flag string carries target_os only when the resolved OS differs
\* from the host's OS and target_cpu only when the resolved CPU differs from
\* the host's CPU; a build without overrides carries neither.
C12_CrossFlagsOnly ==
  gn_flags # "" =>
    gn_flags \in { BaseFlags \o d \o l
                     \o (IF target_os # target_platform THEN TargetOsFlag ELSE "")
                     \o (IF target_cpu # HostCpu THEN TargetCpuFlag ELSE "") :
                   d \in DebugFlags, l \in {"", LinuxFlags} }

\* C13 as stated: the flag string is the same on every host for the same
\* resolved (os, cpu) and the same toggles.
C13_FlagsIgnoreHost ==
  gn_flags # "" =>
    \A p \in AllPlatforms, m \in AllMachines :
      GnFlags(target_os, target_cpu, TargetPlatform(p), m, environ.WEBRTC_DEBUG) = gn_flags

\* C13: the flag string is a function of the resolved (os, cpu), the debug
\* toggle and the host's own platform and machine strings: the baseline, then
\* is_debug, then the linux flags for a linux target, then target_os when it
\* differs from the host platform, then target_cpu when it differs from the
\* host's machine string; the generator call passes exactly that string.
C13_FlagsOfTargetAndHost ==
  gn_flags # "" =>
    /\ gn_flags = BaseFlags
                    \o (IF environ.WEBRTC_DEBUG = "true" THEN " is_debug=true" ELSE " is_debug=false")
                    \o (IF target_os = "linux" THEN LinuxFlags ELSE "")
                    \o (IF target_os # target_platform THEN TargetOsFlag ELSE "")
                    \o (IF target_cpu # machine THEN TargetCpuFlag ELSE "")
    /\ \A i \in GnCalls : calls[i].argv[4] = gn_flags

C13_Witness ==
  /\ target_os # target_platform
  /\ target_cpu # machine
  /\ environ.WEBRTC_TARGET_OS # None
  /\ \E i \in GnCalls : calls[i].argv[4] = gn_flags /\ gn_flags # ""

\* the stage an external command belongs to
Stage(cmd) == CASE cmd = "git describe" -> 0
                [] cmd = "git clone"    -> 1
                [] cmd \in SyncSteps    -> 2
                [] cmd = "gn gen"       -> 3
                [] cmd = "ninja"        -> 4

\* the positions before the build-graph generation, lines 39-113
BeforeBuild == {"release_name", "overrides", "clone_depot_tools", "check_sync"} \cup SyncBlock

\* C14: the commands of an invocation are issued in the order bootstrap,
\* synchronization, generator, build runner; the generator is issued only
\* with the marker present and the synchronization block behind, the build
\* runner only after a successful generator call, and dist/ differs from what
\* the invocation found only after a successful build runner call.
C14_StageOrder ==
  /\ \A i, j \in DOMAIN calls : i < j => Stage(calls[i].cmd) <= Stage(calls[j].cmd)
  /\ Issued({"gn gen"}) => (webrtc_sync /\ pc \notin BeforeBuild)
  /\ \A j \in DOMAIN calls : calls[j].cmd = "ninja" =>
       \E i \in 1..(j-1) : calls[i].cmd = "gn gen" /\ calls[i].ok
  /\ dist_dir # start.dist_dir =>
       \E i \in DOMAIN calls : calls[i].cmd = "ninja" /\ calls[i].ok

C14_Witness ==
  /\ pc = "done"
  /\ ~start.webrtc_sync
  /\ Issued({"git clone"})
  /\ Issued({"gclient sync"})
  /\ dist_dir # start.dist_dir

\* the build runner calls of this invocation
NinjaCalls == { i \in DOMAIN calls : calls[i].cmd = "ninja" }

\* the positions of the packaging stage, lines 142-169
Packaging == {"dist_mkdir", "recreate_include", "recreate_lib", "copy_files", "copy_lib", "build_archive"}

\* the invocation is at, or ended at, one of the positions
At(labels) == pc \in labels \/ (pc = "failed" /\ failed_at \in labels)

\* C15: an invocation calls the generator at most once and the build runner
\* at most once; past the generator it called the generator exactly once and
\* past the build runner it called each exactly once, the generator first and
\* both with out/<os>/<cpu> of the resolved target; the build runner's target
\* is crtc-examples exactly when WEBRTC_EXAMPLES is 'true' and crtc otherwise;
\* a library packaging copied into dist/lib/ is a file of that directory.
C15_BuildOnce ==
  /\ Cardinality(GnCalls) <= 1
  /\ Cardinality(NinjaCalls) <= 1
  /\ At({"ninja"} \cup Packaging \cup {"done"}) => Cardinality(GnCalls) = 1
  /\ At(Packaging \cup {"done"}) => Cardinality(NinjaCalls) = 1
  /\ \A i \in GnCalls : calls[i].argv[3] = OutPath(target_os, target_cpu)
  /\ \A j \in NinjaCalls :
       /\ calls[j].argv[3] = OutPath(target_os, target_cpu)
       /\ \E i \in GnCalls : i < j /\ calls[i].argv[3] = calls[j].argv[3]
       /\ calls[j].argv[4] = (IF environ.WEBRTC_EXAMPLES = "true" THEN "crtc-examples" ELSE "crtc")
  /\ \A f \in dist_dir.lib : f.gen = "new" =>
       \E j \in NinjaCalls : <<calls[j].argv[3][1], calls[j].argv[3][2], f.name>> \in out_dir

C15_Witness ==
  /\ pc = "done"
  /\ start.webrtc_sync
  /\ environ.WEBRTC_EXAMPLES = "true"
  /\ \E j \in NinjaCalls : calls[j].argv[4] = "crtc-examples"
  /\ \E f \in dist_dir.lib : f.gen = "new"

\* what an earlier attempt left behind does not stop an invocation that
\* found the marker absent: the branch is gone when it is created again, the
\* build-graph file is gone when the link is made, and while every command
\* succeeds the invocation stops inside the block only if os.symlink fails
RetryCompletes ==
  /\ (pc = "checkout_branch" /\ webrtc_src_dir) => ~libcrtc_branch
  /\ pc = "link_build_gn" => build_gn = "absent"
  /\ (~start.webrtc_sync /\ \A i \in DOMAIN calls : calls[i].ok) =>
       /\ pc = "failed" => failed_at \notin ({"check_sync"} \cup SyncBlock) \ {"link_crtc", "link_build_gn"}
       /\ At({"gn_flags", "gn_gen", "ninja", "done"} \cup Packaging) => webrtc_sync

\* C16: after an invocation in which a step of the synchronization sequence
\* failed the marker is absent, and an invocation that finds the marker
\* absent and whose commands all succeed completes the sequence and writes
\* the marker, whatever branch, link or build-graph file it finds.
C16_FailedSyncRetried ==
  /\ (pc \in {"done", "failed"} /\ FailedCall(SyncSteps)) => ~webrtc_sync
  /\ RetryCompletes

\* a step of lines 104-110 changes the overlay in src/
OverlayStep ==
  \/ overlay_runs' # overlay_runs
  \/ /\ pc \in {"remove_build_gn", "link_crtc", "link_build_gn"}
     /\ <<build_gn, webrtc_crtc_dir>>' # <<build_gn, webrtc_crtc_dir>>

\* C17 as stated: over all invocations on one workspace at most one changes
\* the overlay, and one that does found the marker absent.
C17_OverlayAtMostOnce ==
  /\ overlay_runs <= 1
  /\ overlay_runs # start.overlay_runs => ~start.webrtc_sync

\* C17: the overlay is changed only by an invocation that found the marker
\* absent and has not written it yet, so never again once the marker exists;
\* an invocation that stopped between the removal of BUILD.gn and the marker
\* is followed by one that applies the overlay again.
C17_OverlayOnlyUnmarked ==
  [][/\ OverlayStep => (~start.webrtc_sync /\ ~webrtc_sync)
     /\ webrtc_sync => (webrtc_sync' /\ overlay_runs' = overlay_runs)]_vars

C17_Witness ==
  /\ overlay_runs = 2
  /\ start.overlay_runs = 1
  /\ webrtc_sync
  /\ build_gn = "link"
  /\ webrtc_crtc_dir

\* C18: a step taken from a position of the packaging stage, the last one
\* of the invocation included, leaves the build output directory, the
\* dependency tree with its branch and overlay links, the marker and the
\* toolchain directory as they are.
C18_PackagingFrame ==
  [][(pc \in Packaging) => UNCHANGED <<out_dir, gitvars, dirvars, overlay_runs>>]_vars

C18_Witness ==
  /\ pc = "failed"
  /\ failed_at = "copy_lib"
  /\ dist_dir # start.dist_dir
  /\ out_dir # {}

\* C19: a process at the marker test enters the synchronization sequence
\* exactly when the marker is absent at that moment, by the fetch when src/
\* is absent and by the update of the existing tree otherwise, wherever the
\* other process is; two processes are inside the sequence together and one
\* finds the link of the other in its way.
C19_NoSerialization ==
  pc = "check_sync" =>
    /\ ~webrtc_sync =>
         ENABLED (CheckSync /\ pc' = (IF webrtc_src_dir THEN "git_fetch" ELSE "fetch"))
    /\ webrtc_sync => ~ENABLED (CheckSync /\ pc' \in SyncBlock)

C19_Witness ==
  /\ ~start.webrtc_sync
  /\ ~peer.start.webrtc_sync
  /\ pc = "failed"
  /\ failed_at = "link_build_gn"
  /\ build_gn = "link"
  /\ peer.pc = "write_marker"

TypeOK ==
  /\ third_party_dir \in BOOLEAN /\ depot_tools_dir \in BOOLEAN
  /\ webrtc_dir \in BOOLEAN /\ webrtc_src_dir \in BOOLEAN
  /\ webrtc_sync \in BOOLEAN /\ webrtc_crtc_dir \in BOOLEAN
  /\ build_gn \in {"absent", "file", "link"}
  /\ libcrtc_branch \in BOOLEAN
  /\ dist_dir.dirs \subseteq {"dist", "include", "lib"}
  /\ overlay_runs \in 0..MaxOverlayRuns
  /\ DOMAIN peer = DOMAIN NotStarted

====
